---- MODULE Spec2Model ----
(***************************************************************************)
(* Model of btrfs-corrupt-block.c: main, the mirror corrupter              *)
(* (debug_corrupt_block) and the extent-metadata corrupter                 *)
(* (corrupt_extent).  Each C statement group is one action; the library    *)
(* calls they make (mapping, block I/O, tree search, transaction) are      *)
(* modelled by their interface: they succeed or fail.                      *)
(***************************************************************************)
EXTENDS Integers, Sequences, FiniteSets, TLC

\* ------------------------------------------------------------------------
\* Bounds
\* ------------------------------------------------------------------------
\* largest mirror count of a logical extent
MaxCopies == 3
\* blocksize, in bytes
BlockSize == 1
\* largest key offset present in the tree; stands for (u64)-1
MaxOffset == 2
\* largest number of records in the extent tree
MaxRecords == 3
\* item capacity of one leaf
LeafCap == 2
\* width of a u64 in the model, in bits
WordBits == 4
\* largest number of options on the command line
MaxArgs == 3

\* ------------------------------------------------------------------------
\* Program constants
\* ------------------------------------------------------------------------
U8Max == 255
BTRFS_EXTENT_ITEM_KEY == 168
BTRFS_TREE_BLOCK_REF_KEY == 176
BTRFS_EXTENT_DATA_REF_KEY == 178
BTRFS_EXTENT_REF_V0_KEY == 180
BTRFS_SHARED_BLOCK_REF_KEY == 182
BTRFS_SHARED_DATA_REF_KEY == 184
BTRFS_BLOCK_GROUP_ITEM_KEY == 192
\* u64 bytes = 4096;  (one sector of the largest sector size of the model)
DefaultBytes == 4

VARIABLES
    mode,        \* the procedure executing: "main", "mirror" or "extent"
    faults,      \* TRUE when library calls may fail and mappings may change
    \* ---- main ----
    in_main,     \* TRUE when the procedures are called from main
    argv,        \* options not yet returned by getopt_long
    ndev,        \* number of non-option arguments
    logical,     \* local logical
    main_copy,   \* local copy
    bytes,       \* local bytes
    extent_rec,  \* local extent_rec
    sectorsize,  \* root->sectorsize (0 before open_ctree)
    seen_e,      \* TRUE when -e is among the arguments
    bad_args,    \* TRUE when the arguments hold a usage error
    logical_in,  \* logical when the filesystem was opened
    bytes_in,    \* bytes when the filesystem was opened
    calls,       \* arguments of the debug_corrupt_block calls, in order
    ran,         \* the procedures main has called
    usage,       \* TRUE when print_usage has run
    opened,      \* TRUE when open_ctree has been called
    status,      \* exit status (-1 while running)
    pc,          \* position in the procedure
    \* ---- debug_corrupt_block ----
    copy,        \* argument copy
    ncopies,     \* mirror count of the mapping for eb->start
    stable,      \* TRUE while every btrfs_num_copies answer equalled ncopies
    mirror_num,  \* local mirror_num
    num_copies,  \* local num_copies (0 before the first query)
    eb_data,     \* eb->data
    eb_dev,      \* physical location eb is bound to (0: none)
    total_ios,   \* device->total_ios summed over devices
    disk,        \* content of each physical location
    disk0,       \* content of each physical location at entry
    log,         \* steps executed so far, <<step, mirror, ok>>; for the
                 \* step "copies" the third field is the answer
    \* ---- corrupt_extent ----
    bytenr,      \* argument bytenr
    tree,        \* extent tree: records in key order
    tree0,       \* extent tree at entry
    key,         \* local key
    ret,         \* local ret
    path,        \* path->nodes[0] (leaf number) and path->slots[0]
    searched,    \* keys passed to btrfs_search_slot, in order
    inspected,   \* keys read by btrfs_item_key_to_cpu, in order
    elog         \* "zero" / "commit" / "close" events, in order

mvars == <<copy, ncopies, stable, mirror_num, num_copies, eb_data, eb_dev,
           total_ios, disk, disk0, log>>
evars == <<bytenr, tree, tree0, key, ret, path, searched, inspected, elog>>
gvars == <<mode, faults, in_main, argv, ndev, logical, main_copy, bytes,
           extent_rec, sectorsize, seen_e, bad_args, logical_in, bytes_in,
           calls, ran, usage, opened, status>>
vars == <<gvars, pc, mvars, evars>>

\* ------------------------------------------------------------------------
\* Blocks and physical locations
\* ------------------------------------------------------------------------
Bytes == {0, 1}
\* block contents: BlockSize bytes of one value (all zero, or live data)
Blocks == {[i \in 1..BlockSize |-> b] : b \in Bytes}
ZeroBlock == [i \in 1..BlockSize |-> 0]
Mirrors == 1..MaxCopies

\* memset(eb->data, 0, eb->len)
Memset0(data, len) == [i \in DOMAIN data |-> IF i <= len THEN 0 ELSE data[i]]

\* a selection test that also takes the mirrors below the requested copy
Selected_UpTo(c, m) == c = 0 \/ m <= c

\* a selection test that takes every mirror
Selected_Always(c, m) == TRUE

\* if (!copy || mirror_num == copy)
Selected(c, m) == c = 0 \/ m = c

\* results a library call can have: success, or failure when faults occur
Outcomes == IF faults THEN BOOLEAN ELSE {TRUE}

\* answers btrfs_num_copies can give: the mirror count, or anything up to
\* MaxCopies when the mapping changes under the loop
Answers == IF faults THEN 0..MaxCopies ELSE {ncopies}

\* contents of the physical locations of an extent with n mirrors: only
\* the locations of existing mirrors hold data
DisksOf(n) ==
    {d \in [Mirrors -> Blocks] : \A m \in Mirrors : m > n => d[m] = ZeroBlock}

\* ------------------------------------------------------------------------
\* debug_corrupt_block
\* ------------------------------------------------------------------------
MainIdle ==
    /\ in_main = FALSE /\ argv = <<>> /\ ndev = 0 /\ logical = 0
    /\ main_copy = 0 /\ bytes = 0 /\ extent_rec = 0 /\ sectorsize = 0
    /\ seen_e = FALSE /\ bad_args = FALSE /\ logical_in = 0 /\ bytes_in = 0
    /\ calls = <<>> /\ ran = {} /\ usage = FALSE /\ opened = FALSE
    /\ status = -1

MirrorIdle ==
    /\ mirror_num = 1 /\ num_copies = 0 /\ eb_data = ZeroBlock /\ eb_dev = 0
    /\ total_ios = 0 /\ log = <<>> /\ stable = TRUE

ExtentIdle ==
    /\ bytenr = 0 /\ tree = <<>> /\ tree0 = <<>> /\ key = <<0, 0, 0>>
    /\ ret = 0 /\ path = <<1, 0>> /\ searched = <<>> /\ inspected = <<>>
    /\ elog = <<>>

InitMirror ==
    /\ mode = "mirror"
    /\ faults = TRUE
    /\ MainIdle
    /\ pc = "m_start"
    /\ copy \in 0..(MaxCopies + 1)
    /\ ncopies \in Mirrors
    /\ disk \in DisksOf(ncopies)
    /\ disk0 = disk
    /\ MirrorIdle
    /\ ExtentIdle

\* eb = btrfs_find_create_tree_block(...); if (!eb) return NULL;
FindCreateTreeBlock ==
    /\ mode = "mirror" /\ pc = "m_start"
    /\ \E ok \in Outcomes :
         /\ pc' = IF ok THEN "m_map" ELSE "m_null"
         /\ eb_data' \in IF ok THEN Blocks ELSE {eb_data}
    /\ UNCHANGED <<gvars, copy, ncopies, stable, mirror_num, num_copies,
                   eb_dev, total_ios, disk, disk0, log, evars>>

\* a mapping error that is not trapped: the loop body goes on
OnMapError_Ignored == "m_print"

\* BUG_ON(ret);
OnMapError == "aborted"

\* btrfs_map_block(..., mirror_num); BUG_ON(ret); bind eb; total_ios++
MapBlock ==
    /\ mode = "mirror" /\ pc = "m_map"
    /\ \E ok \in Outcomes :
         IF ok /\ mirror_num <= ncopies
         THEN /\ eb_dev' = mirror_num
              /\ total_ios' = total_ios + 1
              /\ log' = Append(log, <<"map", mirror_num, TRUE>>)
              /\ pc' = "m_print"
         ELSE /\ log' = Append(log, <<"map", mirror_num, FALSE>>)
              /\ pc' = OnMapError
              /\ UNCHANGED <<eb_dev, total_ios>>
    /\ UNCHANGED <<gvars, copy, ncopies, stable, mirror_num, num_copies,
                   eb_data, disk, disk0, evars>>

\* a loop body without the diagnostic line
PrintMirror_Silent ==
    /\ mode = "mirror" /\ pc = "m_print"
    /\ pc' = "m_select"
    /\ UNCHANGED <<gvars, mvars, evars>>

\* fprintf(stdout, "mirror %d logical ..."); kfree(multi);
PrintMirror ==
    /\ mode = "mirror" /\ pc = "m_print"
    /\ log' = Append(log, <<"print", mirror_num, TRUE>>)
    /\ pc' = "m_select"
    /\ UNCHANGED <<gvars, copy, ncopies, stable, mirror_num, num_copies,
                   eb_data, eb_dev, total_ios, disk, disk0, evars>>

\* if (!copy || mirror_num == copy) { ret = read_extent_from_disk(eb);
ReadExtent ==
    /\ mode = "mirror" /\ pc = "m_select"
    /\ Selected(copy, mirror_num)
    /\ \E ok \in Outcomes :
         /\ eb_data' = IF ok THEN disk[eb_dev] ELSE eb_data
         /\ log' = Append(log, <<"read", mirror_num, ok>>)
    /\ pc' = "m_zero"
    /\ UNCHANGED <<gvars, copy, ncopies, stable, mirror_num, num_copies,
                   eb_dev, total_ios, disk, disk0, evars>>

\* the branch not taken: mirror_num is not the selected copy
SkipMirror ==
    /\ mode = "mirror" /\ pc = "m_select"
    /\ ~Selected(copy, mirror_num)
    /\ pc' = "m_numcopies"
    /\ UNCHANGED <<gvars, mvars, evars>>

\* printf("corrupting ..."); memset(eb->data, 0, eb->len);
MemsetExtent ==
    /\ mode = "mirror" /\ pc = "m_zero"
    /\ eb_data' = Memset0(eb_data, BlockSize)
    /\ log' = Append(log, <<"zero", mirror_num, TRUE>>)
    /\ pc' = "m_write"
    /\ UNCHANGED <<gvars, copy, ncopies, stable, mirror_num, num_copies,
                   eb_dev, total_ios, disk, disk0, evars>>

\* write_extent_to_disk(eb);   (the result is not looked at)
WriteExtent ==
    /\ mode = "mirror" /\ pc = "m_write"
    /\ \E ok \in Outcomes :
         /\ disk' = IF ok THEN [disk EXCEPT ![eb_dev] = eb_data] ELSE disk
         /\ log' = Append(log, <<"write", mirror_num, ok>>)
    /\ pc' = "m_fsync"
    /\ UNCHANGED <<gvars, copy, ncopies, stable, mirror_num, num_copies,
                   eb_data, eb_dev, total_ios, disk0, evars>>

\* fsync(eb->fd); }
FsyncExtent ==
    /\ mode = "mirror" /\ pc = "m_fsync"
    /\ log' = Append(log, <<"fsync", mirror_num, TRUE>>)
    /\ pc' = "m_numcopies"
    /\ UNCHANGED <<gvars, copy, ncopies, stable, mirror_num, num_copies,
                   eb_data, eb_dev, total_ios, disk, disk0, evars>>

\* a loop end that stops one mirror early (>= in place of >)
LoopEnd_OffByOne(answer) ==
    /\ num_copies' = answer
    /\ stable' = (stable /\ answer = ncopies)
    /\ IF answer = 1
       THEN /\ pc' = "m_done"
            /\ UNCHANGED mirror_num
       ELSE /\ mirror_num' = mirror_num + 1
            /\ pc' = IF mirror_num + 1 >= answer THEN "m_done" ELSE "m_map"

\* a loop end that tests the mirror number before incrementing it and has
\* no single-copy exit
LoopEnd_LateCheck(answer) ==
    /\ num_copies' = answer
    /\ stable' = (stable /\ answer = ncopies)
    /\ mirror_num' = mirror_num + 1
    /\ pc' = IF mirror_num > answer THEN "m_done" ELSE "m_map"

\* a loop end without the test of mirror_num against num_copies
LoopEnd_NoBound(answer) ==
    /\ num_copies' = answer
    /\ stable' = (stable /\ answer = ncopies)
    /\ IF answer = 1
       THEN /\ pc' = "m_done"
            /\ UNCHANGED mirror_num
       ELSE /\ mirror_num' = mirror_num + 1
            /\ pc' = "m_map"

\* num_copies = btrfs_num_copies(...); if (num_copies == 1) break;
\* mirror_num++; if (mirror_num > num_copies) break;
LoopEnd(answer) ==
    /\ num_copies' = answer
    /\ stable' = (stable /\ answer = ncopies)
    /\ IF answer = 1
       THEN /\ pc' = "m_done"
            /\ UNCHANGED mirror_num
       ELSE /\ mirror_num' = mirror_num + 1
            /\ pc' = IF mirror_num + 1 > answer THEN "m_done" ELSE "m_map"

NumCopies ==
    /\ mode = "mirror" /\ pc = "m_numcopies"
    /\ \E answer \in Answers :
         /\ LoopEnd(answer)
         /\ log' = Append(log, <<"copies", mirror_num, answer>>)
    /\ UNCHANGED <<gvars, copy, ncopies, eb_data, eb_dev, total_ios, disk,
                   disk0, evars>>

NextMirror ==
    \/ FindCreateTreeBlock
    \/ MapBlock
    \/ PrintMirror
    \/ ReadExtent
    \/ SkipMirror
    \/ MemsetExtent
    \/ WriteExtent
    \/ FsyncExtent
    \/ NumCopies

MirrorSpec == InitMirror /\ [][NextMirror]_vars

\* ------------------------------------------------------------------------
\* Extent tree: keys, leaves, search
\* ------------------------------------------------------------------------
Objectids == {1, 2}
TypeSet == {BTRFS_EXTENT_ITEM_KEY, BTRFS_TREE_BLOCK_REF_KEY,
            BTRFS_BLOCK_GROUP_ITEM_KEY}
Offsets == 0..MaxOffset
KeySpace == Objectids \X TypeSet \X Offsets
\* item data of a record before it is touched
LivePayload == <<1, 1>>

\* key order: objectid, then type, then offset
KeyLess(a, b) ==
    \/ a[1] < b[1]
    \/ a[1] = b[1] /\ a[2] < b[2]
    \/ a[1] = b[1] /\ a[2] = b[2] /\ a[3] < b[3]

IsSorted(keys) ==
    \A i \in 1..(Len(keys) - 1) : KeyLess(keys[i], keys[i + 1])

SortedKeySeqs ==
    {ks \in UNION {[1..n -> KeySpace] : n \in 0..MaxRecords} : IsSorted(ks)}

\* a kind test that lets every type through
IsExtentRefKind_Any(t) == TRUE

\* the six kinds tested before "goto next"
IsExtentRefKind(t) ==
    \/ t = BTRFS_EXTENT_ITEM_KEY
    \/ t = BTRFS_TREE_BLOCK_REF_KEY
    \/ t = BTRFS_EXTENT_DATA_REF_KEY
    \/ t = BTRFS_EXTENT_REF_V0_KEY
    \/ t = BTRFS_SHARED_BLOCK_REF_KEY
    \/ t = BTRFS_SHARED_DATA_REF_KEY

\* leaf number and slot of the record at position g (1-based) of the tree
LeafOf(g) == ((g - 1) \div LeafCap) + 1
SlotOf(g) == (g - 1) % LeafCap
\* position in the tree of the record at (leaf, slot)
PosOf(p) == (p[1] - 1) * LeafCap + p[2] + 1

\* btrfs_search_slot: [ret, path].  ret = 0 and the record's place when the
\* key is present; otherwise ret = 1 and the place where the key would be
\* inserted, in the leaf that holds its predecessor.
SearchSlot(t, k) ==
    LET below == {i \in 1..Len(t) : KeyLess(t[i].key, k)}
        hit == {i \in 1..Len(t) : t[i].key = k}
        p == Cardinality(below)
    IN  IF hit # {}
        THEN LET g == CHOOSE i \in hit : TRUE
             IN  [ret |-> 0, path |-> <<LeafOf(g), SlotOf(g)>>]
        ELSE IF p = 0
             THEN [ret |-> 1, path |-> <<1, 0>>]
             ELSE [ret |-> 1, path |-> <<LeafOf(p), SlotOf(p) + 1>>]

\* memset_extent_buffer(leaf, 0, ptr, item_size) on the record at position g
ZeroItem(t, g) ==
    [t EXCEPT ![g].payload = [i \in DOMAIN t[g].payload |-> 0]]

\* ------------------------------------------------------------------------
\* corrupt_extent
\* ------------------------------------------------------------------------
InitExtent ==
    /\ mode = "extent"
    /\ faults = TRUE
    /\ MainIdle
    /\ pc = "e_start"
    /\ bytenr \in Objectids
    /\ \E ks \in SortedKeySeqs :
         tree = [i \in 1..Len(ks) |-> [key |-> ks[i], payload |-> LivePayload]]
    /\ tree0 = tree
    /\ key = <<0, 0, 0>> /\ ret = 0 /\ path = <<1, 0>>
    /\ searched = <<>> /\ inspected = <<>> /\ elog = <<>>
    /\ copy = 0 /\ ncopies = 1 /\ disk = [m \in Mirrors |-> ZeroBlock]
    /\ disk0 = disk
    /\ MirrorIdle

\* trans = btrfs_start_transaction(); path = btrfs_alloc_path();
\* key.objectid = bytenr; key.type = (u8)-1; key.offset = (u64)-1;
StartTransaction ==
    /\ mode = "extent" /\ pc = "e_start"
    /\ key' = <<bytenr, U8Max, MaxOffset>>
    /\ pc' = "e_search"
    /\ UNCHANGED <<gvars, mvars, bytenr, tree, tree0, ret, path, searched,
                   inspected, elog>>

\* a search error that leaves the function without committing
OnSearchError_NoCommit == "e_close"

\* if (ret < 0) break;   leads to the statements after the loop
OnSearchError == "e_commit"

\* ret = btrfs_search_slot(...); if (ret < 0) break;
\* if (ret > 0) { if (path->slots[0] == 0) break; path->slots[0]--; }
SearchStep ==
    /\ mode = "extent" /\ pc = "e_search"
    /\ searched' = Append(searched, key)
    /\ \E ok \in Outcomes :
         LET r == SearchSlot(tree, key)
         IN  IF ~ok
             THEN /\ ret' = -1
                  /\ pc' = OnSearchError
                  /\ elog' = Append(elog, "search_failed")
                  /\ UNCHANGED path
             ELSE /\ ret' = r.ret
                  /\ UNCHANGED elog
                  /\ IF r.ret > 0
                     THEN IF r.path[2] = 0
                          THEN /\ path' = r.path
                               /\ pc' = "e_commit"
                          ELSE /\ path' = <<r.path[1], r.path[2] - 1>>
                               /\ pc' = "e_readkey"
                     ELSE /\ path' = r.path
                          /\ pc' = "e_readkey"
    /\ UNCHANGED <<gvars, mvars, bytenr, tree, tree0, key, inspected>>

\* a key test without the objectid comparison
AfterReadKey_NoObjectidTest(k, b) ==
    IF IsExtentRefKind(k[2]) THEN "e_zero" ELSE "e_next"

\* if (key.objectid != bytenr) break;  if (key.type != ... ) goto next;
AfterReadKey(k, b) ==
    IF k[1] # b THEN "e_commit"
    ELSE IF IsExtentRefKind(k[2]) THEN "e_zero"
    ELSE "e_next"

\* btrfs_item_key_to_cpu(leaf, &key, slot); if (key.objectid != bytenr) break;
\* if (key.type != ... ) goto next;
ReadKey ==
    /\ mode = "extent" /\ pc = "e_readkey"
    /\ LET k == tree[PosOf(path)].key
       IN  /\ key' = k
           /\ inspected' = Append(inspected, k)
           /\ pc' = AfterReadKey(k, bytenr)
    /\ UNCHANGED <<gvars, mvars, bytenr, tree, tree0, ret, path, searched,
                   elog>>

\* memset_extent_buffer(leaf, 0, ptr, item_size); btrfs_mark_buffer_dirty(leaf);
ZeroRecord ==
    /\ mode = "extent" /\ pc = "e_zero"
    /\ tree' = ZeroItem(tree, PosOf(path))
    /\ elog' = Append(elog, "zero")
    /\ pc' = "e_next"
    /\ UNCHANGED <<gvars, mvars, bytenr, tree0, key, ret, path, searched,
                   inspected>>

\* a decrement that leaves the offset as it is
DecOffset_Stuck(off) == off

\* key.offset after "if (key.offset > 0) key.offset--;"
DecOffset(off) == IF off > 0 THEN off - 1 ELSE off

\* next: btrfs_release_path(); if (key.offset > 0) key.offset--;
\* if (key.offset == 0) break;
NextKey ==
    /\ mode = "extent" /\ pc = "e_next"
    /\ key' = <<key[1], key[2], DecOffset(key[3])>>
    /\ pc' = IF DecOffset(key[3]) = 0 THEN "e_commit" ELSE "e_search"
    /\ UNCHANGED <<gvars, mvars, bytenr, tree, tree0, ret, path, searched,
                   inspected, elog>>

\* btrfs_free_path(path); btrfs_commit_transaction(trans, root);
\* (the result is not looked at)
CommitTransaction ==
    /\ mode = "extent" /\ pc = "e_commit"
    /\ \E ok \in Outcomes :
         elog' = Append(elog, IF ok THEN "commit" ELSE "commit_failed")
    /\ pc' = "e_close"
    /\ UNCHANGED <<gvars, mvars, bytenr, tree, tree0, key, ret, path,
                   searched, inspected>>

\* ret = close_ctree(root); BUG_ON(ret); return 0;
CloseCtree ==
    /\ mode = "extent" /\ pc = "e_close"
    /\ \E ok \in Outcomes :
         /\ elog' = Append(elog, IF ok THEN "close" ELSE "close_failed")
         /\ ret' = IF ok THEN 0 ELSE -1
         /\ pc' = IF ok THEN "e_done" ELSE "aborted"
    /\ UNCHANGED <<gvars, mvars, bytenr, tree, tree0, key, path, searched,
                   inspected>>

NextExtent ==
    \/ StartTransaction
    \/ SearchStep
    \/ ReadKey
    \/ ZeroRecord
    \/ NextKey
    \/ CommitTransaction
    \/ CloseCtree

ExtentSpec == InitExtent /\ [][NextExtent]_vars

\* the scan is never stopped by the scheduler: the program is sequential and
\* every statement is followed by the next one
FairExtentSpec == ExtentSpec /\ WF_vars(NextExtent)

\* ------------------------------------------------------------------------
\* main
\* ------------------------------------------------------------------------
Word == 2 ^ WordBits
\* conversion to u64
U64(x) == x % Word

\* option arguments as atoll / atoi return them
LogicalArgs == {0, 2}
CopyArgs == {-1, 0, 1, 2}
BytesArgs == {-1, 0, 3, 4}
\* what getopt_long returns, with the converted optarg: "b" comes from
\* --bytes (the option string "l:c:e" has no b), "?" from an unknown option
Options ==
    ({"l"} \X LogicalArgs) \cup ({"c"} \X CopyArgs) \cup ({"b"} \X BytesArgs)
        \cup {<<"e", 0>>, <<"?", 0>>}
ArgSeqs == UNION {[1..n -> Options] : n \in 0..MaxArgs}
SectorSizes == {2, 4}
\* extent trees an opened filesystem can hold
MainTrees == {<<>>} \cup {<<k>> : k \in KeySpace}

\* the value of the last option named o, when there is one
Given(opts, o) == \E i \in 1..Len(opts) : opts[i][1] = o
LastVal(opts, o) ==
    LET last == CHOOSE i \in 1..Len(opts) :
                    /\ opts[i][1] = o
                    /\ \A j \in (i + 1)..Len(opts) : opts[j][1] # o
    IN  opts[last][2]

\* a copy test that lets negative mirror numbers through
CopyInvalid_Never(c) == FALSE

\* if (copy < 0) print_usage();
CopyInvalid(c) == c < 0

InitMain ==
    /\ mode = "main"
    /\ faults = FALSE
    /\ in_main = TRUE
    /\ pc = "main_getopt"
    /\ argv \in ArgSeqs
    /\ ndev \in {0, 1}
    /\ logical = 0 /\ main_copy = 0 /\ bytes = DefaultBytes
    \* extent_rec is not initialized: zero or not
    /\ extent_rec \in {0, 1}
    /\ sectorsize = 0
    /\ seen_e = Given(argv, "e")
    /\ bad_args =
          \/ ndev = 0
          \/ Given(argv, "?")
          \/ ~Given(argv, "l")
          \/ Given(argv, "l") /\ LastVal(argv, "l") = 0
          \/ Given(argv, "c") /\ LastVal(argv, "c") <= 0
          \/ Given(argv, "b") /\ LastVal(argv, "b") = 0
    /\ logical_in = 0 /\ bytes_in = 0 /\ calls = <<>> /\ ran = {}
    /\ usage = FALSE /\ opened = FALSE /\ status = -1
    /\ copy = 0 /\ ncopies = 1 /\ disk = [m \in Mirrors |-> ZeroBlock]
    /\ disk0 = disk
    /\ MirrorIdle
    /\ ExtentIdle

\* print_usage(): fprintf(stderr, ...); exit(1);
PrintUsage ==
    /\ usage' = TRUE
    /\ status' = 1
    /\ pc' = "exited"

\* c = getopt_long(...); switch (c) { case 'l': ... }
GetOpt ==
    /\ mode = "main" /\ pc = "main_getopt" /\ argv # <<>>
    /\ argv' = Tail(argv)
    /\ LET o == Head(argv)[1]
           v == Head(argv)[2]
       IN  CASE o = "l" ->
                 /\ logical' = U64(v)
                 /\ IF U64(v) = 0 THEN PrintUsage
                    ELSE UNCHANGED <<usage, status, pc>>
                 /\ UNCHANGED <<main_copy, bytes, extent_rec>>
             [] o = "c" ->
                 /\ main_copy' = v
                 /\ IF v = 0 THEN PrintUsage
                    ELSE UNCHANGED <<usage, status, pc>>
                 /\ UNCHANGED <<logical, bytes, extent_rec>>
             [] o = "b" ->
                 /\ bytes' = U64(v)
                 /\ IF U64(v) = 0 THEN PrintUsage
                    ELSE UNCHANGED <<usage, status, pc>>
                 /\ UNCHANGED <<logical, main_copy, extent_rec>>
             [] o = "e" ->
                 /\ extent_rec' = 1
                 /\ UNCHANGED <<logical, main_copy, bytes, usage, status, pc>>
             [] OTHER ->
                 /\ PrintUsage
                 /\ UNCHANGED <<logical, main_copy, bytes, extent_rec>>
    /\ UNCHANGED <<mode, faults, in_main, ndev, sectorsize, seen_e, bad_args,
                   logical_in, bytes_in, calls, ran, opened, mvars, evars>>

\* if (c < 0) break;  ac = ac - optind; if (ac == 0) print_usage();
\* if (logical == 0) print_usage(); if (copy < 0) print_usage();
CheckArgs ==
    /\ mode = "main" /\ pc = "main_getopt" /\ argv = <<>>
    /\ IF ndev = 0 \/ logical = 0 \/ CopyInvalid(main_copy)
       THEN PrintUsage
       ELSE /\ pc' = "main_open"
            /\ UNCHANGED <<usage, status>>
    /\ UNCHANGED <<mode, faults, in_main, argv, ndev, logical, main_copy,
                   bytes, extent_rec, sectorsize, seen_e, bad_args,
                   logical_in, bytes_in, calls, ran, opened, mvars, evars>>

\* root = open_ctree(dev, 0, 1); if (!root) { ...; exit(1); }
OpenCtree ==
    /\ mode = "main" /\ pc = "main_open"
    /\ opened' = TRUE
    /\ \E ok \in BOOLEAN :
         IF ok
         THEN /\ sectorsize' \in SectorSizes
              /\ \E ks \in MainTrees :
                   tree' = [i \in 1..Len(ks) |->
                               [key |-> ks[i], payload |-> LivePayload]]
              /\ tree0' = tree'
              /\ logical_in' = logical
              /\ bytes_in' = bytes
              /\ pc' = "main_dispatch"
              /\ UNCHANGED status
         ELSE /\ status' = 1
              /\ pc' = "exited"
              /\ UNCHANGED <<sectorsize, tree, tree0, logical_in, bytes_in>>
    /\ UNCHANGED <<mode, faults, in_main, argv, ndev, logical, main_copy,
                   bytes, extent_rec, seen_e, bad_args, calls, ran, usage,
                   mvars, bytenr, key, ret, path, searched, inspected, elog>>

\* if (extent_rec) { ret = corrupt_extent(root, logical, 0);
CallCorruptExtent ==
    /\ mode = "main" /\ pc = "main_dispatch"
    /\ extent_rec # 0
    /\ ran' = ran \cup {"corrupt_extent"}
    /\ bytenr' = logical
    /\ mode' = "extent"
    /\ pc' = "e_start"
    /\ UNCHANGED <<faults, in_main, argv, ndev, logical, main_copy, bytes,
                   extent_rec, sectorsize, seen_e, bad_args, logical_in,
                   bytes_in, calls, usage, opened, status, mvars, tree, tree0,
                   key, ret, path, searched, inspected, elog>>

\* ... goto out; }  out: return ret;
ReturnCorruptExtent ==
    /\ mode = "extent" /\ in_main /\ pc = "e_done"
    /\ status' = ret
    /\ mode' = "main"
    /\ pc' = "exited"
    /\ UNCHANGED <<faults, in_main, argv, ndev, logical, main_copy, bytes,
                   extent_rec, sectorsize, seen_e, bad_args, logical_in,
                   bytes_in, calls, ran, usage, opened, mvars, evars>>

\* bytes = (bytes + root->sectorsize - 1) / root->sectorsize;
\* bytes *= root->sectorsize;     in u64 arithmetic
RoundUp(b, s) == U64((U64(b + s - 1) \div s) * s)

\* if (bytes == 0) bytes = root->sectorsize;  and the rounding of bytes
NormalizeBytes ==
    /\ mode = "main" /\ pc = "main_dispatch"
    /\ extent_rec = 0
    /\ bytes' = RoundUp(IF bytes = 0 THEN sectorsize ELSE bytes, sectorsize)
    /\ pc' = "main_loop"
    /\ UNCHANGED <<mode, faults, in_main, argv, ndev, logical, main_copy,
                   extent_rec, sectorsize, seen_e, bad_args, logical_in,
                   bytes_in, calls, ran, usage, opened, status, mvars, evars>>

\* while (bytes > 0) { eb = debug_corrupt_block(root, logical,
\*                                              root->sectorsize, copy);
CallDebugCorruptBlock ==
    /\ mode = "main" /\ pc = "main_loop"
    /\ bytes > 0
    /\ calls' = Append(calls, <<logical, sectorsize, main_copy>>)
    /\ ran' = ran \cup {"debug_corrupt_block"}
    /\ copy' = main_copy
    \* the mapping and the content of the block at this logical address
    /\ ncopies' \in Mirrors
    /\ disk' \in DisksOf(ncopies')
    /\ disk0' = disk'
    /\ mirror_num' = 1 /\ num_copies' = 0 /\ eb_data' = ZeroBlock
    /\ eb_dev' = 0 /\ log' = <<>> /\ stable' = TRUE
    /\ mode' = "mirror"
    /\ pc' = "m_start"
    /\ UNCHANGED <<faults, in_main, argv, ndev, logical, main_copy, bytes,
                   extent_rec, sectorsize, seen_e, bad_args, logical_in,
                   bytes_in, usage, opened, status, total_ios, evars>>

\* free_extent_buffer(eb); logical += root->sectorsize;
\* bytes -= root->sectorsize; }
ReturnDebugCorruptBlock ==
    /\ mode = "mirror" /\ in_main /\ pc \in {"m_done", "m_null"}
    /\ logical' = U64(logical + sectorsize)
    /\ bytes' = U64(bytes - sectorsize)
    /\ mode' = "main"
    /\ pc' = "main_loop"
    /\ UNCHANGED <<faults, in_main, argv, ndev, main_copy, extent_rec,
                   sectorsize, seen_e, bad_args, logical_in, bytes_in, calls,
                   ran, usage, opened, status, mvars, evars>>

\* the loop test fails;  out: return ret;
MainReturn ==
    /\ mode = "main" /\ pc = "main_loop"
    /\ bytes = 0
    /\ status' = 0
    /\ pc' = "exited"
    /\ UNCHANGED <<mode, faults, in_main, argv, ndev, logical, main_copy,
                   bytes, extent_rec, sectorsize, seen_e, bad_args,
                   logical_in, bytes_in, calls, ran, usage, opened, mvars,
                   evars>>

NextMain ==
    \/ GetOpt
    \/ CheckArgs
    \/ OpenCtree
    \/ CallCorruptExtent
    \/ ReturnCorruptExtent
    \/ NormalizeBytes
    \/ CallDebugCorruptBlock
    \/ ReturnDebugCorruptBlock
    \/ MainReturn
    \/ NextMirror
    \/ NextExtent

MainSpec == InitMain /\ [][NextMain]_vars

\* ------------------------------------------------------------------------
\* Properties of debug_corrupt_block
\* ------------------------------------------------------------------------
\* steps of mirror m recorded in the log
StepsOf(step, m) == {i \in 1..Len(log) : log[i][1] = step /\ log[i][2] = m}

IOStepNames == <<"read", "zero", "write", "fsync">>
IsIOStep(e) == e[1] \in {"read", "zero", "write", "fsync"}
\* the read / zero / write / fsync steps executed so far, as <<step, mirror>>
IOTrace ==
    LET io == SelectSeq(log, IsIOStep)
    IN  [i \in 1..Len(io) |-> <<io[i][1], io[i][2]>>]
\* read, zero, write, fsync of mirror 1, then of mirror 2, ..., of mirror n
FullTrace(n) ==
    [i \in 1..(4 * n) |-> <<IOStepNames[((i - 1) % 4) + 1], ((i - 1) \div 4) + 1>>]

\* C1: with copy = 0 and a constant mirror count N >= 2, when the function
\* returns the I/O steps executed are exactly read, zero, write, fsync of
\* mirror 1, then of mirror 2, ..., then of mirror N: each location once, in
\* increasing mirror order.
C1_AllMirrorsOnceInOrder ==
    (pc = "m_done" /\ copy = 0 /\ stable /\ ncopies >= 2)
        => IOTrace = FullTrace(ncopies)

C1_Witness ==
    /\ pc = "m_done" /\ copy = 0 /\ stable /\ ncopies = MaxCopies
    /\ \A m \in 1..ncopies : StepsOf("fsync", m) # {}

\* C2: with copy = k, 1 <= k <= N, every physical location other than the
\* k-th holds, at every moment of the call, the content it had at entry.
C2_OnlySelectedMirrorChanges ==
    (mode = "mirror" /\ copy \in 1..ncopies)
        => \A m \in Mirrors \ {copy} : disk[m] = disk0[m]

C2_Witness ==
    /\ pc = "m_done" /\ copy = 2 /\ ncopies = MaxCopies /\ stable
    /\ disk[2] # disk0[2]
    /\ disk0[1] # ZeroBlock /\ disk0[3] # ZeroBlock

\* C3: with a mirror count of 1, whatever copy is, only mirror 1 is ever
\* resolved or touched, it is resolved once, and at return it has been zeroed
\* once if it is selected (copy = 0 or copy = 1) and not at all otherwise.
C3_SingleCopyVisitedOnce ==
    (mode = "mirror" /\ ncopies = 1 /\ stable)
        => /\ \A i \in 1..Len(log) : log[i][2] = 1
           /\ Cardinality(StepsOf("map", 1)) <= 1
           /\ Cardinality(StepsOf("zero", 1)) <= 1
           /\ pc = "m_done"
                => /\ Cardinality(StepsOf("map", 1)) = 1
                   /\ Cardinality(StepsOf("zero", 1)) =
                          IF copy = 0 \/ copy = 1 THEN 1 ELSE 0
                   /\ Cardinality(StepsOf("write", 1)) =
                          IF copy = 0 \/ copy = 1 THEN 1 ELSE 0

C3_Witness ==
    /\ pc = "m_done" /\ ncopies = 1 /\ stable /\ copy = 1
    /\ StepsOf("zero", 1) # {}

\* C4: when the function returns, every physical location it zeroed and
\* wrote back holds BlockSize zero bytes.
C4_Original ==
    pc = "m_done"
        => \A m \in Mirrors : StepsOf("write", m) # {} => disk[m] = ZeroBlock

\* a read or a write that failed
FailedIO(i) == log[i][1] \in {"read", "write"} /\ log[i][3] = FALSE
FailedMap(i) == log[i][1] = "map" /\ log[i][3] = FALSE

\* C11: a failed read or write is the last step of the run: nothing is
\* executed after it and the function does not return.
C11_Original ==
    \A i \in 1..Len(log) : FailedIO(i) => (i = Len(log) /\ pc = "aborted")

\* C12: a failed btrfs_map_block at mirror m is the last step of the run:
\* the process is aborted, no diagnostic is printed for m and no location of
\* mirror number >= m is read or written.
C12_MapFailureAborts ==
    \A i \in 1..Len(log) :
        FailedMap(i)
            => /\ i = Len(log)
               /\ pc = "aborted"
               /\ StepsOf("print", log[i][2]) = {}
               /\ \A j \in 1..Len(log) :
                     log[j][1] \in {"read", "zero", "write", "fsync"}
                         => log[j][2] < log[i][2]

C12_Witness ==
    /\ pc = "aborted"
    /\ \E i \in 1..Len(log) : FailedMap(i) /\ log[i][2] = 2
    /\ StepsOf("write", 1) # {}

\* the mirror numbers resolved so far, and the answers received so far
MapSteps == {i \in 1..Len(log) : log[i][1] = "map"}
CopiesSteps == {i \in 1..Len(log) : log[i][1] = "copies"}
Max(a, b) == IF a >= b THEN a ELSE b

\* C15: the j-th iteration works on mirror j; btrfs_num_copies is asked
\* again after every iteration; an answer of 1, or an answer below the
\* incremented mirror number, ends the loop at once; and while every answer
\* is at most M, at most max(M, 1) iterations are started, whatever the
\* answers are.
C15_LoopBoundedByAnswers ==
    mode = "mirror"
        => /\ \A i \in MapSteps :
                 log[i][2] = Cardinality({j \in MapSteps : j <= i})
           /\ Cardinality(CopiesSteps) >= Cardinality(MapSteps) - 1
           /\ \A i \in CopiesSteps :
                 (log[i][3] = 1 \/ log[i][2] + 1 > log[i][3])
                     => (i = Len(log) /\ pc = "m_done")
           /\ \A M \in 0..MaxCopies :
                 (\A i \in CopiesSteps : log[i][3] <= M)
                     => Cardinality(MapSteps) <= Max(M, 1)

C15_Witness ==
    /\ pc = "m_done" /\ ~stable
    /\ Cardinality(MapSteps) = 2
    /\ \E i, j \in CopiesSteps : i < j /\ log[i][3] = 3 /\ log[j][3] = 2

\* the steps of mirror m, in order
MirrorSteps(m) ==
    LET mine == SelectSeq(log, LAMBDA e : e[2] = m /\ e[1] # "copies")
    IN  [i \in 1..Len(mine) |-> mine[i][1]]
SelectedSteps == <<"map", "print", "read", "zero", "write", "fsync">>
SkippedSteps == <<"map", "print">>
IsPrefix(a, b) == Len(a) <= Len(b) /\ \A i \in 1..Len(a) : a[i] = b[i]

\* C17: the steps of one mirror are map, print, and for a selected mirror
\* read, zero, write, fsync, in this order and each at most once; all steps
\* of mirror m come before the first step of mirror m + 1; and once the
\* answer of btrfs_num_copies for mirror m is in, or the function has
\* returned, every visited mirror has all its steps.
C17_StepOrderPerMirror ==
    mode = "mirror"
        => /\ \A i \in 1..(Len(log) - 1) : log[i][2] <= log[i + 1][2]
           /\ \A m \in Mirrors :
                 IsPrefix(MirrorSteps(m),
                          IF Selected(copy, m) THEN SelectedSteps
                          ELSE SkippedSteps)
           /\ \A m \in Mirrors :
                 (StepsOf("copies", m) # {} \/ (pc = "m_done" /\ m <= mirror_num
                                                 /\ StepsOf("map", m) # {}))
                     => MirrorSteps(m) = IF Selected(copy, m) THEN SelectedSteps
                                         ELSE SkippedSteps

C17_Witness ==
    /\ pc = "m_done" /\ copy = 2 /\ ncopies = MaxCopies /\ stable
    /\ MirrorSteps(1) = SkippedSteps
    /\ MirrorSteps(2) = SelectedSteps
    /\ MirrorSteps(3) = SkippedSteps

\* C19: with copy = k above the mirror count N no location is read, zeroed
\* or written and every content is as at entry; when the function returns
\* after constant answers N, each of the N mirrors has been resolved and
\* reported once.
C19_CopyAboveCountTouchesNothing ==
    (mode = "mirror" /\ copy > ncopies)
        => /\ disk = disk0
           /\ \A i \in 1..Len(log) :
                 log[i][1] \notin {"read", "zero", "write", "fsync"}
           /\ (pc = "m_done" /\ stable)
                 => \A m \in 1..ncopies :
                       /\ Cardinality(StepsOf("map", m)) = 1
                       /\ Cardinality(StepsOf("print", m)) = 1

C19_Witness ==
    /\ pc = "m_done" /\ stable /\ ncopies = 2 /\ copy = 3
    /\ disk0[1] # ZeroBlock /\ disk0[2] # ZeroBlock
    /\ StepsOf("print", 2) # {}

\* ------------------------------------------------------------------------
\* Properties of corrupt_extent
\* ------------------------------------------------------------------------
IsZeroed(rec) == \A i \in DOMAIN rec.payload : rec.payload[i] = 0
Events(name) == {i \in 1..Len(elog) : elog[i] = name}
\* btrfs_commit_transaction has been called, with either result
CommitCalls == Events("commit") \cup Events("commit_failed")
CloseCalls == Events("close") \cup Events("close_failed")
\* the scan loop has been left
ScanOver == pc \in {"e_commit", "e_close", "e_done", "aborted"}

\* C5: when corrupt_extent returns after a scan without search error, every
\* record of objectid bytenr and of a recognized kind has a zeroed payload.
C5_Original ==
    (pc = "e_done" /\ Events("search_failed") = {})
        => \A g \in 1..Len(tree) :
              (tree[g].key[1] = bytenr /\ IsExtentRefKind(tree[g].key[2]))
                  => IsZeroed(tree[g])

\* C6 as stated: every key the scan reads back has objectid bytenr.
C6_Original ==
    \A i \in 1..Len(inspected) : inspected[i][1] = bytenr

\* C6: the scan reads the key of at most one record whose objectid differs
\* from bytenr; that read is the last step of the scan (the loop is left at
\* once) and no record of another objectid is ever modified.
C6_ForeignKeyEndsScan ==
    /\ \A i \in 1..Len(inspected) :
          inspected[i][1] # bytenr => (i = Len(inspected) /\ ScanOver)
    /\ \A g \in 1..Len(tree) : tree[g].key[1] # bytenr => tree[g] = tree0[g]

C6_Witness ==
    /\ pc = "e_done"
    /\ Len(inspected) >= 2
    /\ inspected[Len(inspected)][1] # bytenr
    /\ Events("zero") # {}

\* C7 as stated: the offsets of successive searches strictly decrease.
C7_Original ==
    \A i \in 1..(Len(searched) - 1) : searched[i + 1][3] < searched[i][3]

\* C7: the scan terminates, and the keys of successive searches strictly
\* decrease in key order (objectid, type, offset): they all carry objectid
\* bytenr and an offset >= 0, with a type that never grows and an offset that
\* strictly decreases as long as the type stays the same.
SearchKeysDecrease ==
    /\ \A i \in 1..Len(searched) :
          searched[i][1] = bytenr /\ searched[i][3] >= 0
    /\ \A i \in 1..(Len(searched) - 1) : KeyLess(searched[i + 1], searched[i])

C7_ScanTerminatesKeysDecrease ==
    /\ [](mode = "extent" => SearchKeysDecrease)
    /\ <>(pc \in {"e_done", "aborted"})

C7_Witness ==
    /\ pc = "e_done"
    /\ \E i \in 1..(Len(searched) - 1) :
          /\ searched[i + 1][3] >= searched[i][3]
          /\ searched[i + 1][2] < searched[i][2]

\* C8: at the end of an iteration an offset of 1 or more is decremented and
\* followed by another search.
C8_Original ==
    [][(pc = "e_next" /\ key[3] >= 1)
          => (pc' = "e_search" /\ key'[3] = key[3] - 1)]_vars

\* C9: btrfs_commit_transaction is called at most once; it is called after
\* every payload mutation and before close_ctree; and when corrupt_extent has
\* ended it has been called exactly once, whatever the scan did.
C9_CommitOnceAtEnd ==
    mode = "extent"
        => /\ Cardinality(CommitCalls) <= 1
           /\ \A i \in Events("zero") : \A j \in CommitCalls : i < j
           /\ \A i \in CloseCalls : \E j \in CommitCalls : j < i
           /\ pc \in {"e_close", "e_done", "aborted"}
                => Cardinality(CommitCalls) = 1

C9_Witness ==
    /\ pc = "e_done"
    /\ Events("search_failed") # {}
    /\ Events("zero") # {}
    /\ Cardinality(CommitCalls) = 1

\* extent item, tree-block ref, extent-data ref, legacy extent ref,
\* shared-block ref, shared-data ref
SixKinds == {BTRFS_EXTENT_ITEM_KEY, BTRFS_TREE_BLOCK_REF_KEY,
             BTRFS_EXTENT_DATA_REF_KEY, BTRFS_EXTENT_REF_V0_KEY,
             BTRFS_SHARED_BLOCK_REF_KEY, BTRFS_SHARED_DATA_REF_KEY}

\* C16: the scan changes nothing but the payload bytes of records of objectid
\* bytenr and of a recognized kind: the tree keeps its records and their
\* keys, payloads keep their length, and every record of another objectid or
\* of another type is as at entry.
C16_OnlyMatchingPayloadsChange ==
    mode = "extent"
        => /\ Len(tree) = Len(tree0)
           /\ \A g \in 1..Len(tree) :
                 /\ tree[g].key = tree0[g].key
                 /\ Len(tree[g].payload) = Len(tree0[g].payload)
                 /\ (tree[g].key[1] # bytenr \/ tree[g].key[2] \notin SixKinds)
                       => tree[g] = tree0[g]

C16_Witness ==
    /\ pc = "e_done"
    /\ \E i \in 1..Len(inspected) :
          inspected[i] = <<bytenr, BTRFS_BLOCK_GROUP_ITEM_KEY, 2>>
    /\ \E g \in 1..Len(tree) : IsZeroed(tree[g])
    /\ \E g \in 1..Len(tree) : tree[g].key[1] # bytenr

\* C10: after a failed commit the function does not go on to close the
\* filesystem or to return 0, and after a failed close it does not return.
C10_Original ==
    /\ Events("commit_failed") # {} => (CloseCalls = {} /\ pc = "aborted")
    /\ Events("close_failed") # {} => pc = "aborted"

\* ------------------------------------------------------------------------
\* Properties of main
\* ------------------------------------------------------------------------
\* C13: with -e only corrupt_extent is called, without -e only
\* debug_corrupt_block is called, and never both.
C13_Original ==
    /\ seen_e => "debug_corrupt_block" \notin ran
    /\ ~seen_e => "corrupt_extent" \notin ran
    /\ Cardinality(ran) <= 1

\* C14: when the arguments hold a usage error (no device, an unknown
\* option, no logical address or a zero one, a mirror number of zero or
\* below, a byte count of zero; of an option given twice the last value
\* counts), main never gets past argument parsing: open_ctree is not called,
\* no procedure runs, nothing is written, and the process ends in
\* print_usage with status 1.
C14_UsageErrorExitsBeforeOpen ==
    (mode = "main" /\ bad_args)
        => /\ pc \in {"main_getopt", "exited"}
           /\ ~opened
           /\ ran = {} /\ calls = <<>>
           /\ disk = disk0 /\ tree = tree0
           /\ pc = "exited" => (usage /\ status = 1)

C14_Witness ==
    /\ pc = "exited" /\ bad_args /\ usage /\ status = 1 /\ ~opened
    /\ main_copy < 0 /\ logical # 0 /\ ndev = 1 /\ argv = <<>>

\* number of sectors needed to hold b bytes
CeilDiv(b, s) == (b + s - 1) \div s

\* C18: when main has run the mirror mode to its end, debug_corrupt_block
\* has been called once per sector of the byte count, ceil(bytes/sectorsize)
\* times, for logical, logical + sectorsize, ... and one sector each time.
C18_Original ==
    (pc = "exited" /\ status = 0 /\ "corrupt_extent" \notin ran)
        => /\ Len(calls) = CeilDiv(bytes_in, sectorsize)
           /\ \A i \in 1..Len(calls) :
                 calls[i] = <<logical_in + (i - 1) * sectorsize, sectorsize,
                              main_copy>>
           /\ bytes = 0

====
